---- MODULE Spec2Model ----
(***************************************************************************)
(* ClusterPopulator: the hierarchical weighted allocation of              *)
(* StructureGenerator (generators/structure.py) and the bounded-          *)
(* concurrency execution engine of Orchestrator (orchestrator.py).        *)
(*                                                                         *)
(* A Python dict is modelled as the sequence of its <<key, value>> items  *)
(* in insertion order, which is the order .items() iterates in.           *)
(***************************************************************************)
EXTENDS Integers, Sequences, FiniteSets, TLC

VARIABLES
    \* one call of a method of StructureGenerator
    call,       \* the call under test: [fn, ...arguments]
    returned,   \* TRUE once the call has returned
    ret,        \* the value the call returned
    \* the FilenameGenerator
    vocab,      \* number of file names generate_filename draws from
    \* the Orchestrator and one call of Orchestrator.generate
    run_pc,             \* position of the coroutine generate
    total_files,        \* argument total_files
    depth,              \* argument depth
    concurrency,        \* self.concurrency
    progress_callback,  \* self.progress_callback: "none", "returns" or "raises"
    executor_shutdown,  \* self.file_gen._executor has been shut down
    fs_dirs,            \* directories that exist, as paths below base_path
    file_specs,         \* the list file_specs
    directories,        \* the set directories
    dirs_todo,          \* directories the mkdir loop has still to create
    sem_value,          \* semaphore._value
    sem_waiters,        \* semaphore._waiters: the tasks blocked in acquire
    task_pc,            \* position of each task of generate_with_semaphore
    render_calls,       \* per task, how often its generator method was called
    render_method,      \* per task, the generator method it called
    render_outcome,     \* per task, how its generator method ended
    results,            \* per task, the tuple it returned
    completed,          \* the counter completed
    progress_calls,     \* the calls made to self.progress_callback
    result              \* the GenerationResult returned

callVars == <<call, returned, ret>>

orchVars == <<total_files, depth, concurrency, progress_callback>>

taskVars == <<sem_value, sem_waiters, task_pc, render_calls, render_method,
              render_outcome, results, completed, progress_calls>>

runVars == <<run_pc, orchVars, executor_shutdown, fs_dirs, file_specs, directories,
             dirs_todo, taskVars, result>>

vars == <<callVars, vocab, runVars>>

\* the GenerationResult of a run that has not returned
NoResult == [total_files |-> 0, successful |-> 0, failed |-> 0, errors |-> <<>>,
             directories_created |-> 0]

\* no call of a StructureGenerator method is under test
IdleCall ==
    /\ call = [fn |-> "none"]
    /\ returned = FALSE
    /\ ret = <<>>

\* no Orchestrator exists
IdleRun ==
    /\ run_pc = "idle"
    /\ total_files = 0
    /\ depth = 0
    /\ concurrency = 0
    /\ progress_callback = "none"
    /\ executor_shutdown = FALSE
    /\ fs_dirs = {}
    /\ file_specs = <<>>
    /\ directories = {}
    /\ dirs_todo = <<>>
    /\ sem_value = 0
    /\ sem_waiters = <<>>
    /\ task_pc = <<>>
    /\ render_calls = <<>>
    /\ render_method = <<>>
    /\ render_outcome = <<>>
    /\ results = <<>>
    /\ completed = 0
    /\ progress_calls = <<>>
    /\ result = NoResult

-----------------------------------------------------------------------------
(* Bounds of the model *)

MaxBuckets == 3        \* longest generic bucket list given to _distribute_files
MaxWeight == 3         \* largest generic bucket weight
MaxAllocTotal == 9     \* largest total given to _distribute_files
NumSubdirs == 2        \* entries kept of each SUBDIRECTORIES list
MaxSubdirCount == 10   \* largest count given to _distribute_to_subdirs
MaxYearCount == 40     \* largest count given to _distribute_by_year
MaxSubdirList == 3     \* longest sub-directory list given to _distribute_to_subdirs
NumDepts == 2          \* entries kept of the department list
MaxTotal == 17         \* largest total_files given to generate_structure
MaxNames == 2          \* largest vocabulary of the FilenameGenerator
MaxNamedTotal == 2     \* largest total_files tried with more than one file name
MaxRunTotal == 2       \* largest total_files given to Orchestrator.generate
MaxRunNamedTotal == 1  \* largest total_files of a run with more than one file name
MaxConcurrency == 2    \* largest concurrency given to the Orchestrator
MaxGiven == 2          \* longest list of FileSpecs handed to the tasks directly
MaxCliCount == 2       \* largest small count given to the command line

-----------------------------------------------------------------------------
(* Helpers *)

Max(a, b) == IF a >= b THEN a ELSE b

Min(a, b) == IF a <= b THEN a ELSE b

Range(s) == {s[k] : k \in 1..Len(s)}

RECURSIVE SumSeq(_)
SumSeq(s) == IF s = <<>> THEN 0 ELSE s[1] + SumSeq(Tail(s))

\* sum(d.values()) of a dict
RECURSIVE SumValues(_)
SumValues(d) == IF d = <<>> THEN 0 ELSE d[1][2] + SumValues(Tail(d))

\* d.keys() and d.get(k, 0) of a dict
Keys(d) == {d[k][1] : k \in 1..Len(d)}

Get(d, key) == IF key \in Keys(d)
               THEN (CHOOSE item \in Range(d) : item[1] = key)[2]
               ELSE 0

-----------------------------------------------------------------------------
(* Program tables *)

\* FilenameGenerator.get_departments(): the keys of DEPARTMENT_FILE_PATTERNS
DEPARTMENTS == <<"Finance", "Human_Resources", "Marketing", "Sales",
                 "Operations", "Legal", "IT", "Executive">>

\* StructureGenerator.DEPARTMENT_WEIGHTS.get(d, 10)
DEPARTMENT_WEIGHTS(d) ==
    CASE d = "Finance" -> 15
      [] d = "Human_Resources" -> 12
      [] d = "Marketing" -> 15
      [] d = "Sales" -> 18
      [] d = "Operations" -> 12
      [] d = "Legal" -> 8
      [] d = "IT" -> 12
      [] d = "Executive" -> 8
      [] OTHER -> 10

\* FilenameGenerator.SUBDIRECTORIES.get(dept, [])
SUBDIRECTORIES_TABLE(d) ==
        CASE d = "Finance" ->
               <<"Invoices", "Reports", "Budgets", "Tax", "Payroll", "Audits">>
          [] d = "Human_Resources" ->
               <<"Policies", "Onboarding", "Payroll", "Training", "Recruiting", "Benefits">>
          [] d = "Marketing" ->
               <<"Campaigns", "Collateral", "Analytics", "Brand", "Events", "Content">>
          [] d = "Sales" ->
               <<"Proposals", "Contracts", "Pipeline", "Presentations", "Accounts", "Quotes">>
          [] d = "Operations" ->
               <<"Procedures", "Inventory", "Logistics", "Vendors", "Quality", "Safety">>
          [] d = "Legal" ->
               <<"Contracts", "Compliance", "Agreements", "NDAs", "Litigation", "IP">>
          [] d = "IT" ->
               <<"Documentation", "Configurations", "Logs", "Projects", "Security", "Infrastructure">>
          [] d = "Executive" ->
               <<"Strategy", "Board_Materials", "Memos", "Reports", "Investors", "Planning">>
          [] OTHER -> <<>>

\* the table with each list cut to its first NumSubdirs entries
SUBDIRECTORIES(d) ==
    SubSeq(SUBDIRECTORIES_TABLE(d), 1, Min(NumSubdirs, Len(SUBDIRECTORIES_TABLE(d))))

\* FilenameGenerator.get_departments(), cut to its first NumDepts entries
GetDepartments == SubSeq(DEPARTMENTS, 1, Min(NumDepts, Len(DEPARTMENTS)))

-----------------------------------------------------------------------------
(* StructureGenerator._distribute_files *)

\* int(total * weights[i] / total_weight): the quotient of two non-negative
\* integers, truncated
ProportionalShare(total, weight, total_weight) == (total * weight) \div total_weight

\* count = max(1, count) if remaining > len(departments) - i else 0
ReservedCount(count, remaining, buckets_left) ==
    IF remaining > buckets_left THEN Max(1, count) ELSE 0

NextRemainingStale(remaining, given) == remaining

\* remaining -= distribution[dept]
NextRemaining(remaining, given) == remaining - given

\* a result that keeps the buckets with count 0
KeepAll(distribution) == distribution

\* {k: v for k, v in distribution.items() if v > 0}
KeepPositive(distribution) ==
    SelectSeq(distribution, LAMBDA item : item[2] > 0)

\* the loop over enumerate(departments[:-1]) from index i (0-based), then the
\* assignment of the remainder to departments[-1]
RECURSIVE DistributeFilesLoop(_, _, _, _, _, _)
DistributeFilesLoop(total, departments, weights, i, remaining, distribution) ==
    IF i >= Len(departments) - 1
    THEN Append(distribution, <<departments[Len(departments)], remaining>>)
    ELSE LET count == ReservedCount(
                          ProportionalShare(total, weights[i + 1], SumSeq(weights)),
                          remaining, Len(departments) - i)
             given == Min(count, remaining)
         IN DistributeFilesLoop(total, departments, weights, i + 1,
                                NextRemaining(remaining, given),
                                Append(distribution, <<departments[i + 1], given>>))

DistributeFiles(total, departments, weights) ==
    KeepPositive(DistributeFilesLoop(total, departments, weights, 0, total, <<>>))

-----------------------------------------------------------------------------
(* StructureGenerator._distribute_to_subdirs *)

\* a choice of k elements that can take the same element again
RECURSIVE SampleWithReplacement(_, _)
SampleWithReplacement(population, k) ==
    IF k = 0 THEN {<<>>}
    ELSE UNION {{<<x>> \o s : s \in SampleWithReplacement(population, k - 1)}
                : x \in population}

\* random.sample(population, k): every ordered choice of k distinct elements
RECURSIVE Sample(_, _)
Sample(population, k) ==
    IF k = 0 THEN {<<>>}
    ELSE UNION {{<<x>> \o s : s \in Sample(population \ {x}, k - 1)} : x \in population}

\* random.randint(a, b)
RandInt(a, b) == a..b

\* min(subdir_count, remaining - (num_subdirs - i - 1))
CapSubdirCount(subdir_count, remaining, num_subdirs, i) ==
    Min(subdir_count, remaining - (num_subdirs - i - 1))

SubdirRemainingStale(remaining, subdir_count) == remaining

\* remaining -= subdir_count
SubdirRemaining(remaining, subdir_count) == remaining - subdir_count

\* the loop over enumerate(selected_subdirs[:-1]) from index i (0-based), then
\* the assignment of the remainder to selected_subdirs[-1]: every outcome
RECURSIVE SubdirLoop(_, _, _, _)
SubdirLoop(selected_subdirs, i, remaining, distribution) ==
    LET num_subdirs == Len(selected_subdirs) IN
    IF i >= num_subdirs - 1
    THEN {Append(distribution, <<selected_subdirs[num_subdirs], remaining>>)}
    ELSE LET avg == remaining \div (num_subdirs - i)
             variance == Max(1, avg \div 3)
         IN UNION {
              LET subdir_count == CapSubdirCount(r, remaining, num_subdirs, i)
              IN SubdirLoop(selected_subdirs, i + 1,
                            SubdirRemaining(remaining, subdir_count),
                            Append(distribution, <<selected_subdirs[i + 1], subdir_count>>))
              : r \in RandInt(Max(1, avg - variance), avg + variance)}

\* min(len(subdirs), max(2, count // 3))
NumSelected(count, subdirs) == Min(Len(subdirs), Max(2, count \div 3))

\* every dict _distribute_to_subdirs(count, subdirs) can return
DistributeToSubdirs(count, subdirs) ==
    IF count <= Len(subdirs)
    THEN {[k \in 1..count |-> <<selected[k], 1>>] : selected \in Sample(Range(subdirs), count)}
    ELSE UNION {SubdirLoop(selected_subdirs, 0, count, <<>>)
                : selected_subdirs \in Sample(Range(subdirs), NumSelected(count, subdirs))}

-----------------------------------------------------------------------------
(* StructureGenerator._distribute_by_year *)

\* [str(y) for y in range(current_year - 2, current_year + 1)]
YEARS == <<"2022", "2023", "2024">>

\* the weights with the oldest year favoured
YEAR_WEIGHTS_REVERSED == <<4, 2, 1>>

\* weights = [1, 2, 4]
YEAR_WEIGHTS == <<1, 2, 4>>

\* max(0, min(year_count, remaining - (len(years) - i - 1)))
CapYearCount(year_count, remaining, i) ==
    Max(0, Min(year_count, remaining - (Len(YEARS) - i - 1)))

YearRemainingStale(remaining, year_count) == remaining

\* remaining -= year_count
YearRemaining(remaining, year_count) == remaining - year_count

\* the loop over enumerate(years[:-1]) from index i (0-based), then the
\* assignment of a positive remainder to years[-1]
RECURSIVE YearLoop(_, _, _, _)
YearLoop(count, i, remaining, distribution) ==
    IF i >= Len(YEARS) - 1
    THEN IF remaining > 0
         THEN Append(distribution, <<YEARS[Len(YEARS)], remaining>>)
         ELSE distribution
    ELSE LET year_count == CapYearCount(
                               ProportionalShare(count, YEAR_WEIGHTS[i + 1], SumSeq(YEAR_WEIGHTS)),
                               remaining, i)
         IN IF year_count > 0
            THEN YearLoop(count, i + 1, YearRemaining(remaining, year_count),
                          Append(distribution, <<YEARS[i + 1], year_count>>))
            ELSE YearLoop(count, i + 1, remaining, distribution)

DistributeByYear(count) == YearLoop(count, 0, count, <<>>)

-----------------------------------------------------------------------------
(* The allocators applied to bounded inputs *)

\* bucket lists: every list of 1..MaxBuckets departments with weights in
\* 1..MaxWeight, and the program's own eight departments with their weights
GenericWeights ==
    UNION {[1..n -> 1..MaxWeight] : n \in 1..MaxBuckets}

ProgramWeights == [k \in 1..Len(DEPARTMENTS) |-> DEPARTMENT_WEIGHTS(DEPARTMENTS[k])]

FilesCalls ==
    {[fn |-> "_distribute_files", total |-> t,
      departments |-> SubSeq(DEPARTMENTS, 1, Len(w)), weights |-> w]
     : t \in 0..MaxAllocTotal, w \in GenericWeights \cup {ProgramWeights}}

SubdirCalls ==
    {[fn |-> "_distribute_to_subdirs", count |-> c,
      subdirs |-> SubSeq(SUBDIRECTORIES_TABLE("Finance"), 1, n)]
     : c \in 0..MaxSubdirCount, n \in 1..Min(MaxSubdirList, 6)}

YearCalls ==
    {[fn |-> "_distribute_by_year", count |-> c] : c \in 0..MaxYearCount}

InitAlloc ==
    /\ call \in FilesCalls \cup SubdirCalls \cup YearCalls
    /\ returned = FALSE
    /\ ret = <<>>
    /\ vocab = 1
    /\ IdleRun

CallDistributeFiles ==
    /\ ~returned
    /\ call.fn = "_distribute_files"
    /\ ret' = DistributeFiles(call.total, call.departments, call.weights)
    /\ returned' = TRUE
    /\ UNCHANGED <<call, vocab, runVars>>

CallDistributeToSubdirs ==
    /\ ~returned
    /\ call.fn = "_distribute_to_subdirs"
    /\ ret' \in DistributeToSubdirs(call.count, call.subdirs)
    /\ returned' = TRUE
    /\ UNCHANGED <<call, vocab, runVars>>

CallDistributeByYear ==
    /\ ~returned
    /\ call.fn = "_distribute_by_year"
    /\ ret' = DistributeByYear(call.count)
    /\ returned' = TRUE
    /\ UNCHANGED <<call, vocab, runVars>>

NextAlloc ==
    \/ CallDistributeFiles
    \/ CallDistributeToSubdirs
    \/ CallDistributeByYear

SpecAlloc == InitAlloc /\ [][NextAlloc]_vars

-----------------------------------------------------------------------------
(* Claims about the allocators *)

\* C1: for every total >= 0 and every ordered mapping of buckets to positive
\* weights, the counts _distribute_files returns sum exactly to total.
C1_DistributeFilesConserves ==
    (returned /\ call.fn = "_distribute_files") => SumValues(ret) = call.total

\* a call of _distribute_files in which the proportional shares round down and
\* the last bucket absorbs a remainder larger than its own share
C1_Witness ==
    /\ returned
    /\ call.fn = "_distribute_files"
    /\ Len(call.departments) = 3
    /\ call.total = 8
    /\ Len(ret) = 3
    /\ ret[3][2] > ProportionalShare(call.total, call.weights[3], SumSeq(call.weights))

\* C2: for every total >= the number of buckets, every bucket passed to
\* _distribute_files is present in the result with count >= 1.
C2_EveryBucketServed ==
    (returned /\ call.fn = "_distribute_files" /\ call.total >= Len(call.departments))
        => \A d \in Range(call.departments) : Get(ret, d) >= 1

\* C3: when total is smaller than the number of buckets, _distribute_files
\* gives exactly the first `total` buckets in iteration order 1 unit each and
\* every later bucket is absent from the result.
C3_FirstBucketsServed ==
    (returned /\ call.fn = "_distribute_files" /\ call.total < Len(call.departments))
        => ret = [k \in 1..call.total |-> <<call.departments[k], 1>>]

\* C10: for every category count >= 0 and every outcome of the random
\* choices, the counts _distribute_to_subdirs returns sum exactly to count.
C10_SubdirsConserve ==
    (returned /\ call.fn = "_distribute_to_subdirs") => SumValues(ret) = call.count

\* a call of _distribute_to_subdirs that took the random walk over three
\* selected sub-directories and gave them unequal counts
C10_Witness ==
    /\ returned
    /\ call.fn = "_distribute_to_subdirs"
    /\ call.count > Len(call.subdirs)
    /\ Len(ret) = 3
    /\ ret[1][2] > ret[2][2]
    /\ ret[3][2] > ret[1][2]

\* the units still unassigned when bucket i (1-based) of the call is reached
Unassigned(i) ==
    call.total - SumSeq([j \in 1..(i - 1) |-> Get(ret, call.departments[j])])

\* C20: in _distribute_files, left to right, each non-final bucket receives
\* floor(total * weight / sum of weights), raised to at least 1 whenever the
\* units still unassigned are enough to cover all remaining buckets (one for
\* the current bucket and one for each bucket after it); the last bucket
\* receives the remainder.
C20_ReservationRule ==
    (returned /\ call.fn = "_distribute_files") =>
        LET n == Len(call.departments)
            share(i) == ProportionalShare(call.total, call.weights[i], SumSeq(call.weights))
        IN /\ \A i \in 1..(n - 1) :
                  Get(ret, call.departments[i]) =
                      IF Unassigned(i) >= n - i + 1 THEN Max(1, share(i)) ELSE share(i)
           /\ Get(ret, call.departments[n]) = Unassigned(n)

\* C11: for every sub-directory count >= 0, the counts _distribute_by_year
\* returns sum exactly to that count.
C11_YearsConserve ==
    (returned /\ call.fn = "_distribute_by_year") => SumValues(ret) = call.count

\* a finished call that gave files to each of the three years
C11_Witness ==
    /\ returned
    /\ call.fn = "_distribute_by_year"
    /\ call.count = 10
    /\ Keys(ret) = Range(YEARS)

\* C12: for every count >= 3 the newest year gets at least as many files as
\* each older year (an absent year counts as 0): the older years get the
\* floor of their 1/7 and 2/7 shares and the newest year the remainder.
C12_NewestYearLargest ==
    (returned /\ call.fn = "_distribute_by_year" /\ call.count >= 3) =>
        /\ Get(ret, "2024") >= Get(ret, "2023")
        /\ Get(ret, "2024") >= Get(ret, "2022")
        /\ Get(ret, "2022") = call.count \div 7
        /\ Get(ret, "2023") = (2 * call.count) \div 7
        /\ Get(ret, "2024") = call.count - Get(ret, "2022") - Get(ret, "2023")

\* a finished call whose count splits exactly 1 : 2 : 4
C12_Witness ==
    /\ returned
    /\ call.fn = "_distribute_by_year"
    /\ call.count = 7
    /\ ret = <<<<"2022", 1>>, <<"2023", 2>>, <<"2024", 4>>>>

\* C21: at each of the three allocation levels (department, sub-directory,
\* year), for every non-negative count and every random outcome, the returned
\* dict holds no negative and no zero count: every listed bucket has a count
\* >= 1, a bucket that would get 0 is left out.
C21_CountsPositive ==
    (returned /\ call.fn \in {"_distribute_files", "_distribute_to_subdirs",
                              "_distribute_by_year"}) =>
        \A k \in 1..Len(ret) : ret[k][2] >= 1

\* a finished call of _distribute_files that left out a bucket other than
\* the first
C21_Witness ==
    /\ returned
    /\ call.fn = "_distribute_files"
    /\ call.total >= 1
    /\ Len(ret) < Len(call.departments)
    /\ call.departments[1] \in Keys(ret)

\* C24: when count <= the number of sub-directories, _distribute_to_subdirs
\* selects exactly `count` distinct sub-directories and gives each exactly 1.
C24_SmallCountSampled ==
    (returned /\ call.fn = "_distribute_to_subdirs" /\ call.count <= Len(call.subdirs)) =>
        /\ Len(ret) = call.count
        /\ Cardinality(Keys(ret)) = call.count
        /\ Keys(ret) \subseteq Range(call.subdirs)
        /\ \A k \in 1..Len(ret) : ret[k][2] = 1

\* a finished call that sampled two of three sub-directories, the last one
\* of the list first
C24_Witness ==
    /\ returned
    /\ call.fn = "_distribute_to_subdirs"
    /\ call.count = 2
    /\ Len(call.subdirs) = 3
    /\ ret[1] = <<call.subdirs[3], 1>>
    /\ ret[2] = <<call.subdirs[1], 1>>

-----------------------------------------------------------------------------
(* FilenameGenerator.generate_filename and StructureGenerator._create_file_spec *)

\* file names generate_filename(department) can return: a prefix of the
\* department and one of its extensions, each drawn at random per call
\* (pattern "simple"), so the same name can come back twice
FILENAMES(department) ==
    CASE department = "Finance" -> <<"Invoice.pdf", "Invoice.xlsx", "Budget.csv">>
      [] department = "Human_Resources" -> <<"Policy.pdf", "Policy.docx", "Org_Chart.xlsx">>
      [] department = "Marketing" -> <<"Newsletter.html", "Media_Kit.pptx", "Ad_Copy.docx">>
      [] department = "Sales" -> <<"Quote.pdf", "Sales_Deck.pptx", "Forecast.xlsx">>
      [] department = "Operations" -> <<"SOP.pdf", "Workflow.xml", "Vendor_List.csv">>
      [] department = "Legal" -> <<"NDA.pdf", "Contract.docx", "Addendum.json">>
      [] department = "IT" -> <<"Runbook.md", "Access_Log.txt", "Configuration.json">>
      [] department = "Executive" ->
             <<"Strategic_Plan.pdf", "Annual_Report.docx", "KPI_Summary.xlsx">>
      [] OTHER -> <<>>

\* every file name generate_filename(department) can return in this run: the
\* first `vocab` names of the department
GenerateFilename(department) ==
    {FILENAMES(department)[k] : k \in 1..Min(vocab, Len(FILENAMES(department)))}

\* Path(filename).suffix
Suffix(filename) ==
    CASE filename \in {"Invoice.pdf", "Policy.pdf", "Quote.pdf", "SOP.pdf", "NDA.pdf",
                       "Strategic_Plan.pdf"} -> ".pdf"
      [] filename \in {"Policy.docx", "Ad_Copy.docx", "Contract.docx",
                       "Annual_Report.docx"} -> ".docx"
      [] filename \in {"Invoice.xlsx", "Org_Chart.xlsx", "Forecast.xlsx",
                       "KPI_Summary.xlsx"} -> ".xlsx"
      [] filename \in {"Media_Kit.pptx", "Sales_Deck.pptx"} -> ".pptx"
      [] filename \in {"Budget.csv", "Vendor_List.csv"} -> ".csv"
      [] filename \in {"Addendum.json", "Configuration.json"} -> ".json"
      [] filename = "Newsletter.html" -> ".html"
      [] filename = "Workflow.xml" -> ".xml"
      [] filename = "Runbook.md" -> ".md"
      [] filename = "Access_Log.txt" -> ".txt"
      [] OTHER -> ""

\* FileSpec(path=directory / filename, extension=..., department=...); a path
\* is the sequence of its parts below base_path
CreateFileSpec(dir, department, filename) ==
    [path |-> Append(dir, filename),
     extension |-> Suffix(filename),
     department |-> department]

-----------------------------------------------------------------------------
(* StructureGenerator.generate_structure *)

\* depth = max(1, min(3, depth))
ClampDepth(d) == Max(1, Min(3, d))

\* the size above which a sub-directory is split by year: subdir_count > 5
YEAR_THRESHOLD == 5

\* every concatenation of one sequence from each set of a sequence of sets:
\* the lists that consecutive loops can append
RECURSIVE Concats(_)
Concats(sets) ==
    IF sets = <<>> THEN {<<>>}
    ELSE {a \o b : a \in sets[1], b \in Concats(Tail(sets))}

\* for _ in range(n): file_specs.append(self._create_file_spec(dir, dept))
FileSpecsIn(dir, department, n) ==
    {[k \in 1..n |-> CreateFileSpec(dir, department, names[k])]
     : names \in [1..n -> GenerateFilename(department)]}

\* lines 81-86: the files of a sub-directory split by year
YearSpecs(subdir_path, department, subdir_count) ==
    LET year_allocation == DistributeByYear(subdir_count)
    IN Concats([k \in 1..Len(year_allocation) |->
                  FileSpecsIn(Append(subdir_path, year_allocation[k][1]), department,
                              year_allocation[k][2])])

\* a test that also splits a sub-directory of exactly five files
SplitByYearInclusive(d, subdir_count) == d >= 3 /\ subdir_count >= YEAR_THRESHOLD

\* line 80: if depth >= 3 and subdir_count > 5
SplitByYear(d, subdir_count) == d >= 3 /\ subdir_count > YEAR_THRESHOLD

\* lines 77-90: the files of the sub-directories of one allocation
SubdirSpecs(dept_path, department, subdir_allocation, d) ==
    Concats([k \in 1..Len(subdir_allocation) |->
               LET subdir_path == Append(dept_path, subdir_allocation[k][1])
                   subdir_count == subdir_allocation[k][2]
               IN IF SplitByYear(d, subdir_count)
                  THEN YearSpecs(subdir_path, department, subdir_count)
                  ELSE FileSpecsIn(subdir_path, department, subdir_count)])

\* a department that uses its sub-directories at every depth
DeptSpecsAlwaysSubdirs(department, count, d) ==
    LET dept_path == <<department>>
        subdirs == SUBDIRECTORIES(department)
    IN IF subdirs # <<>>
       THEN UNION {SubdirSpecs(dept_path, department, subdir_allocation, d)
                   : subdir_allocation \in DistributeToSubdirs(count, subdirs)}
       ELSE FileSpecsIn(dept_path, department, count)

\* lines 71-98: the files of one department, for every random outcome
DeptSpecs(department, count, d) ==
    LET dept_path == <<department>>
        subdirs == SUBDIRECTORIES(department)
    IN IF d >= 2 /\ subdirs # <<>>
       THEN UNION {SubdirSpecs(dept_path, department, subdir_allocation, d)
                   : subdir_allocation \in DistributeToSubdirs(count, subdirs)}
       ELSE FileSpecsIn(dept_path, department, count)

\* every list generate_structure(base_path, total, depth_arg) can return
GenerateStructure(total, depth_arg) ==
    LET d == ClampDepth(depth_arg)
        departments == GetDepartments
        dept_weights == [k \in 1..Len(departments) |-> DEPARTMENT_WEIGHTS(departments[k])]
        files_per_dept == DistributeFiles(total, departments, dept_weights)
    IN Concats([k \in 1..Len(files_per_dept) |->
                  DeptSpecs(files_per_dept[k][1], files_per_dept[k][2], d)])

DepthArgs == 0..4

\* the calls tried: every total with a one-name vocabulary, and the small
\* totals with every vocabulary
\* the depths cli.main hands to preview_structure, its only caller:
\* choices=[1, 2, 3] of --depth
PreviewDepthArgs == {1, 2, 3}

StructureCalls ==
    {[fn |-> "generate_structure", total_files |-> t, depth |-> d]
     : t \in 0..MaxTotal, d \in DepthArgs}
    \cup {[fn |-> "preview_structure", total_files |-> t, depth |-> d]
          : t \in 0..MaxTotal, d \in PreviewDepthArgs}

InitStructure ==
    /\ call \in StructureCalls
    /\ vocab \in 1..MaxNames
    /\ vocab = 1 \/ call.total_files <= MaxNamedTotal
    /\ returned = FALSE
    /\ ret = <<>>
    /\ IdleRun

CallGenerateStructure ==
    /\ ~returned
    /\ call.fn = "generate_structure"
    /\ ret' \in GenerateStructure(call.total_files, call.depth)
    /\ returned' = TRUE
    /\ UNCHANGED <<call, vocab, runVars>>


-----------------------------------------------------------------------------
(* Claims about generate_structure *)

\* C4: for every requested total and every depth, and for every outcome of
\* the random sub-directory choices, generate_structure returns exactly
\* total_files FileSpecs.
C4_StructureReturnsTotal ==
    (returned /\ call.fn = "generate_structure") => Len(ret) = call.total_files

\* a finished call with depth 3 that placed files in year directories and
\* files directly in a sub-directory
C4_Witness ==
    /\ returned
    /\ call.fn = "generate_structure"
    /\ call.total_files >= 1
    /\ call.depth = 3
    /\ \E k \in 1..Len(ret) : Len(ret[k].path) = 4
    /\ \E k \in 1..Len(ret) : Len(ret[k].path) = 3

\* C5: within one run, no two FileSpecs returned by generate_structure have
\* the same path, whatever file names the FilenameGenerator returns.
C5_UniquePaths ==
    (returned /\ call.fn = "generate_structure" /\ vocab >= 2) =>
        \A j, k \in 1..Len(ret) : j # k => ret[j].path # ret[k].path

\* the directory of the k-th returned FileSpec, as its parts below base_path
TargetDir(k) == SubSeq(ret[k].path, 1, Len(ret[k].path) - 1)

\* the number of returned FileSpecs below the sub-directory of the k-th one
SubdirCount(k) ==
    Cardinality({j \in 1..Len(ret) :
                   /\ Len(TargetDir(j)) >= 2
                   /\ SubSeq(TargetDir(j), 1, 2) = SubSeq(TargetDir(k), 1, 2)})

\* C22: for a depth of 1, 2 or 3, every FileSpec's directory is
\* base_path/<department> followed by at most depth - 1 further levels, a
\* sub-directory of that department and then a year; with depth 1 it is
\* exactly base_path/<department>, and a department that defines no
\* sub-directories keeps its files directly in base_path/<department>.
C22_DirectoryShape ==
    (returned /\ call.fn = "generate_structure" /\ call.depth \in 1..3) =>
        \A k \in 1..Len(ret) :
            LET dir == TargetDir(k)
                department == ret[k].department
            IN /\ Len(dir) >= 1
               /\ Len(dir) <= call.depth
               /\ dir[1] = department
               /\ department \in Range(GetDepartments)
               /\ Len(dir) >= 2 => dir[2] \in Range(SUBDIRECTORIES(department))
               /\ Len(dir) >= 3 => dir[3] \in Range(YEARS)
               /\ call.depth = 1 => dir = <<department>>
               /\ SUBDIRECTORIES(department) = <<>> => dir = <<department>>

\* a finished call with depth 1 and six or more files in one department,
\* which a deeper call would have spread over sub-directories
C22_Witness ==
    /\ returned
    /\ call.fn = "generate_structure"
    /\ call.depth = 1
    /\ \E k \in 1..Len(ret) :
          Cardinality({j \in 1..Len(ret) : ret[j].department = ret[k].department}) >= 6

\* C23: with depth 3, the files of a sub-directory are in year directories
\* exactly when the sub-directory was given more than five files.
C23_YearsAboveFive ==
    (returned /\ call.fn = "generate_structure" /\ call.depth = 3) =>
        \A k \in 1..Len(ret) :
            /\ Len(TargetDir(k)) >= 2
            /\ Len(TargetDir(k)) = 3 <=> SubdirCount(k) > 5

\* a finished call with depth 3 where one sub-directory holds exactly six
\* files, in year directories, and another exactly five, directly
C23_Witness ==
    /\ returned
    /\ call.fn = "generate_structure"
    /\ call.depth = 3
    /\ \E k \in 1..Len(ret) : SubdirCount(k) = 6 /\ Len(TargetDir(k)) = 3
    /\ \E k \in 1..Len(ret) : SubdirCount(k) = 5 /\ Len(TargetDir(k)) = 2

-----------------------------------------------------------------------------
(* Paths below base_path *)

\* the directory names of the program in str order, the order sorted() uses
SORTED_NAMES == <<
    "2022", "2023", "2024", "Accounts", "Agreements", "Analytics", "Audits",
    "Benefits", "Board_Materials", "Brand", "Budgets", "Campaigns", "Collateral",
    "Compliance", "Configurations", "Content", "Contracts", "Documentation", "Events",
    "Executive", "Finance", "Human_Resources", "IP", "IT", "Infrastructure",
    "Inventory", "Investors", "Invoices", "Legal", "Litigation", "Logistics", "Logs",
    "Marketing", "Memos", "NDAs", "Onboarding", "Operations", "Payroll", "Pipeline",
    "Planning", "Policies", "Presentations", "Procedures", "Projects", "Proposals",
    "Quality", "Quotes", "Recruiting", "Reports", "Safety", "Sales", "Security",
    "Strategy", "Tax", "Training", "Vendors" >>

NameRank(name) == CHOOSE k \in 1..Len(SORTED_NAMES) : SORTED_NAMES[k] = name

\* p < q for two Paths: their parts compared in order
RECURSIVE PathLess(_, _)
PathLess(p, q) ==
    IF p = <<>> THEN q # <<>>
    ELSE IF q = <<>> THEN FALSE
    ELSE IF p[1] = q[1] THEN PathLess(Tail(p), Tail(q))
    ELSE NameRank(p[1]) < NameRank(q[1])

\* sorted(paths)
RECURSIVE SortedPaths(_)
SortedPaths(paths) ==
    IF paths = {} THEN <<>>
    ELSE LET least == CHOOSE p \in paths : \A q \in paths \ {p} : PathLess(p, q)
         IN <<least>> \o SortedPaths(paths \ {least})

\* path.parent
Parent(path) == SubSeq(path, 1, Len(path) - 1)

\* a mkdir that creates the ancestors of a directory but not the directory
WithParentsOnly(dir) == {SubSeq(dir, 1, n) : n \in 0..(Len(dir) - 1)}

\* what dir.mkdir(parents=True, exist_ok=True) leaves in existence: the
\* directory and every ancestor of it, base_path (the empty path) included
WithParents(dir) == {SubSeq(dir, 1, n) : n \in 0..Len(dir)}

-----------------------------------------------------------------------------
(* StructureGenerator.get_directory_tree and Orchestrator.preview_structure *)

\* a tree that lists only the directories that hold files
DirectoriesOfParentsOnly(specs) == {Parent(specs[k].path) : k \in 1..Len(specs)}

\* lines 183-188: every ancestor of a spec's path that is below base_path
DirectoriesOf(specs) ==
    UNION {WithParents(Parent(specs[k].path)) \ {<<>>} : k \in 1..Len(specs)}

\* lines 194-197: f"{indent}{rel_path.parts[-1]}/" as the width of the
\* indent, two spaces per part of rel_path, and the text after it
TreeLine(directory) ==
    [indent |-> 2 * Len(directory), name |-> directory[Len(directory)], slash |-> TRUE]

\* the lines that get_directory_tree joins with "\n"; the first is str(base_path)
GetDirectoryTree(specs) ==
    LET sorted_dirs == SortedPaths(DirectoriesOf(specs))
    IN <<[indent |-> 0, name |-> "base_path", slash |-> FALSE]>>
       \o [k \in 1..Len(sorted_dirs) |-> TreeLine(sorted_dirs[k])]

\* preview_structure: generate_structure, then get_directory_tree of its result
CallPreviewStructure ==
    /\ ~returned
    /\ call.fn = "preview_structure"
    /\ \E specs \in GenerateStructure(call.total_files, call.depth) :
          ret' = [file_specs |-> specs, tree |-> GetDirectoryTree(specs)]
    /\ returned' = TRUE
    /\ UNCHANGED <<call, vocab, runVars>>

NextStructure == CallGenerateStructure \/ CallPreviewStructure

SpecStructure == InitStructure /\ [][NextStructure]_vars

\* the line of the tree under which line k is nested: the last line before
\* it with one level less of indent (0 if there is none)
ParentLine(tree, k) ==
    LET above == {j \in 1..(k - 1) : tree[j].indent = tree[k].indent - 2}
    IN IF above = {} THEN 0 ELSE CHOOSE j \in above : \A i \in above : i <= j

\* the directory a reader of the tree takes line k to stand for: the names
\* from the line below base_path down to line k
RECURSIVE LineDir(_, _)
LineDir(tree, k) ==
    IF k <= 1 THEN <<>>
    ELSE LineDir(tree, ParentLine(tree, k)) \o <<tree[k].name>>

\* C26: the tree of a preview starts with base_path and then has one line
\* for every directory that is an ancestor of a spec's path below base_path,
\* each exactly once, in sorted order, after the line of its parent,
\* indented by two spaces per level below base_path.
C26_TreeListsDirectories ==
    (returned /\ call.fn = "preview_structure") =>
        LET tree == ret.tree
            implied == UNION {{SubSeq(ret.file_specs[k].path, 1, n) :
                                 n \in 1..(Len(ret.file_specs[k].path) - 1)}
                              : k \in 1..Len(ret.file_specs)}
        IN /\ tree[1] = [indent |-> 0, name |-> "base_path", slash |-> FALSE]
           /\ Len(tree) = 1 + Cardinality(implied)
           /\ {LineDir(tree, k) : k \in 2..Len(tree)} = implied
           /\ \A k \in 2..Len(tree) :
                 /\ tree[k].slash
                 /\ tree[k].indent = 2 * Len(LineDir(tree, k))
                 /\ ParentLine(tree, k) >= 1
                 /\ k > 2 => PathLess(LineDir(tree, k - 1), LineDir(tree, k))

\* a preview with depth 3 whose tree has a sub-directory that holds no file
\* itself, only year directories, and that has two departments
C26_Witness ==
    /\ returned
    /\ call.fn = "preview_structure"
    /\ call.depth = 3
    /\ \E k \in 2..Len(ret.tree) :
          /\ ret.tree[k].indent = 4
          /\ \A j \in 1..Len(ret.file_specs) :
                Parent(ret.file_specs[j].path) # LineDir(ret.tree, k)
    /\ \E j, k \in 2..Len(ret.tree) :
          j # k /\ ret.tree[j].indent = 2 /\ ret.tree[k].indent = 2

-----------------------------------------------------------------------------
(* Orchestrator.generate *)

\* Orchestrator.EXTENSION_GENERATORS.get(extension)
EXTENSION_GENERATORS(extension) ==
    CASE extension = ".txt" -> "generate_txt"
      [] extension = ".json" -> "generate_json"
      [] extension = ".csv" -> "generate_csv"
      [] extension = ".docx" -> "generate_docx"
      [] extension = ".xlsx" -> "generate_xlsx"
      [] extension = ".pdf" -> "generate_pdf"
      [] extension = ".pptx" -> "generate_pptx"
      [] extension = ".xml" -> "generate_xml"
      [] extension = ".html" -> "generate_html"
      [] extension = ".md" -> "generate_md"
      [] OTHER -> "None"

\* a lookup without the else branch of lines 113-115
GeneratorMethodStrict(spec) == EXTENSION_GENERATORS(spec.extension)

\* lines 108-114: the generator method a task calls for its spec
GeneratorMethod(spec) ==
    IF EXTENSION_GENERATORS(spec.extension) # "None"
    THEN EXTENSION_GENERATORS(spec.extension)
    ELSE "generate_txt"

\* the generator methods that run in self._executor (loop.run_in_executor)
UsesExecutor(method) ==
    method \in {"generate_docx", "generate_xlsx", "generate_pdf", "generate_pptx"}

\* str(e) of the exceptions a generator method raises; "" is an exception
\* without a message
FailureReasons == {"", "OSError"}

\* str(e) of the RuntimeError that ThreadPoolExecutor.submit raises after
\* shutdown()
SHUTDOWN_REASON == "cannot schedule new futures after shutdown"

Tasks == 1..Len(task_pc)

Init ==
    /\ IdleCall
    /\ run_pc = "start"
    /\ total_files \in 0..MaxRunTotal
    /\ depth \in DepthArgs
    /\ vocab \in 1..MaxNames
    /\ vocab = 1 \/ total_files <= MaxRunNamedTotal
    /\ concurrency \in -1..MaxConcurrency
    /\ progress_callback \in {"none", "returns", "raises"}
    /\ executor_shutdown = FALSE
    /\ fs_dirs = {}
    /\ file_specs = <<>>
    /\ directories = {}
    /\ dirs_todo = <<>>
    /\ sem_value = 0
    /\ sem_waiters = <<>>
    /\ task_pc = <<>>
    /\ render_calls = <<>>
    /\ render_method = <<>>
    /\ render_outcome = <<>>
    /\ results = <<>>
    /\ completed = 0
    /\ progress_calls = <<>>
    /\ result = NoResult

\* lines 82-83: base_path.mkdir(parents=True, exist_ok=True), which creates
\* the directory or raises OSError
MkdirBase ==
    /\ run_pc = "start"
    /\ \/ /\ fs_dirs' = fs_dirs \cup WithParents(<<>>)
          /\ run_pc' = "structure"
       \/ /\ run_pc' = "raised"
          /\ UNCHANGED fs_dirs
    /\ UNCHANGED <<orchVars, executor_shutdown, file_specs, directories, dirs_todo,
                   taskVars, result, callVars, vocab>>

\* lines 85-93: file_specs = generate_structure(...), then the set of the
\* specs' parent directories
BuildStructure ==
    /\ run_pc = "structure"
    /\ file_specs' \in GenerateStructure(total_files, depth)
    /\ directories' = {Parent(file_specs'[k].path) : k \in 1..Len(file_specs')}
    /\ dirs_todo' = SortedPaths(directories')
    /\ run_pc' = "mkdirs"
    /\ UNCHANGED <<orchVars, executor_shutdown, fs_dirs, taskVars, result, callVars, vocab>>

\* a loop that goes on to the next directory when mkdir raises
MkdirNextSwallows ==
    /\ run_pc = "mkdirs"
    /\ dirs_todo # <<>>
    /\ dirs_todo' = Tail(dirs_todo)
    /\ \/ fs_dirs' = fs_dirs \cup WithParents(Head(dirs_todo))
       \/ UNCHANGED fs_dirs
    /\ UNCHANGED <<run_pc, orchVars, executor_shutdown, file_specs, directories, taskVars,
                   result, callVars, vocab>>

\* lines 95-96: one iteration of the loop over sorted(directories), which
\* creates the directory or raises OSError
MkdirNext ==
    /\ run_pc = "mkdirs"
    /\ dirs_todo # <<>>
    /\ \/ /\ fs_dirs' = fs_dirs \cup WithParents(Head(dirs_todo))
          /\ dirs_todo' = Tail(dirs_todo)
          /\ UNCHANGED run_pc
       \/ /\ run_pc' = "raised"
          /\ UNCHANGED <<fs_dirs, dirs_todo>>
    /\ UNCHANGED <<orchVars, executor_shutdown, file_specs, directories, taskVars,
                   result, callVars, vocab>>

\* lines 98-124: asyncio.Semaphore(self.concurrency), which raises ValueError
\* for a negative value, the counters, and one task per spec handed to gather
Dispatch ==
    /\ run_pc = "mkdirs"
    /\ dirs_todo = <<>>
    /\ IF concurrency < 0
       THEN /\ run_pc' = "raised"
            /\ UNCHANGED taskVars
       ELSE /\ run_pc' = "gather"
            /\ sem_value' = concurrency
            /\ sem_waiters' = <<>>
            /\ task_pc' = [i \in 1..Len(file_specs) |-> "new"]
            /\ render_calls' = [i \in 1..Len(file_specs) |-> 0]
            /\ render_method' = [i \in 1..Len(file_specs) |-> "none"]
            /\ render_outcome' = [i \in 1..Len(file_specs) |-> "none"]
            /\ results' = [i \in 1..Len(file_specs) |-> <<>>]
            /\ completed' = 0
            /\ progress_calls' = <<>>
    /\ UNCHANGED <<orchVars, executor_shutdown, fs_dirs, file_specs, directories,
                   dirs_todo, result, callVars, vocab>>

\* a gate that never closes
LockedNever == FALSE

\* Semaphore.locked(): no slot is free, or a task is queued for one. A
\* waiter stays in the queue until it resumes from acquire
Locked == sem_value = 0 \/ sem_waiters # <<>>

\* the queued tasks that no release has woken yet, in queue order
Sleeping(waiters, pcs) == SelectSeq(waiters, LAMBDA w : pcs[w] = "waiting")

\* Semaphore._wake_up_next: the first waiter not yet woken gets a slot
\* (value - 1) and is scheduled to resume; nothing changes when there is none
WakeUpNext(value, waiters, pcs) ==
    IF Sleeping(waiters, pcs) = <<>>
    THEN [value |-> value, task_pc |-> pcs]
    ELSE [value |-> value - 1,
          task_pc |-> [pcs EXCEPT ![Head(Sleeping(waiters, pcs))] = "granted"]]

\* the end of Semaphore.acquire for a woken task:
\* `while self._value > 0: if not self._wake_up_next(): break`
RECURSIVE WakeWhileFree(_, _, _)
WakeWhileFree(value, waiters, pcs) ==
    IF value > 0 /\ Sleeping(waiters, pcs) # <<>>
    THEN WakeWhileFree(WakeUpNext(value, waiters, pcs).value, waiters,
                       WakeUpNext(value, waiters, pcs).task_pc)
    ELSE [value |-> value, task_pc |-> pcs]

\* line 106, `async with semaphore`: the first step of a task. asyncio runs
\* the tasks of gather in the order they were created. Semaphore.acquire
\* takes a slot at once when the semaphore is not locked and the task calls
\* its generator method; otherwise the task joins the queue of waiters
TaskStart(i) ==
    /\ task_pc[i] = "new"
    /\ \A j \in 1..(i - 1) : task_pc[j] # "new"
    /\ IF ~Locked
       THEN /\ sem_value' = sem_value - 1
            /\ task_pc' = [task_pc EXCEPT ![i] = "rendering"]
            /\ render_calls' = [render_calls EXCEPT ![i] = @ + 1]
            /\ render_method' = [render_method EXCEPT ![i] = GeneratorMethod(file_specs[i])]
            /\ UNCHANGED sem_waiters
       ELSE /\ sem_waiters' = Append(sem_waiters, i)
            /\ task_pc' = [task_pc EXCEPT ![i] = "waiting"]
            /\ UNCHANGED <<sem_value, render_calls, render_method>>
    /\ UNCHANGED <<render_outcome, results, completed, progress_calls>>
    /\ UNCHANGED <<run_pc, orchVars, executor_shutdown, fs_dirs, file_specs, directories,
                   dirs_todo, result, callVars, vocab>>

\* a task that a release woke resumes in Semaphore.acquire: it leaves the
\* queue, passes free slots on to the waiters behind it, and calls its
\* generator method (lines 108-114)
TaskResume(i) ==
    /\ task_pc[i] = "granted"
    /\ LET waiters == SelectSeq(sem_waiters, LAMBDA w : w # i)
           woken == WakeWhileFree(sem_value, waiters, task_pc)
       IN /\ sem_waiters' = waiters
          /\ sem_value' = woken.value
          /\ task_pc' = [woken.task_pc EXCEPT ![i] = "rendering"]
    /\ render_calls' = [render_calls EXCEPT ![i] = @ + 1]
    /\ render_method' = [render_method EXCEPT ![i] = GeneratorMethod(file_specs[i])]
    /\ UNCHANGED <<render_outcome, results, completed, progress_calls>>
    /\ UNCHANGED <<run_pc, orchVars, executor_shutdown, fs_dirs, file_specs, directories,
                   dirs_todo, result, callVars, vocab>>

\* an exit of the async with that keeps the slot
ReleaseKeepsSlot(i, pc) ==
    /\ sem_value' = sem_value
    /\ task_pc' = [task_pc EXCEPT ![i] = pc]
    /\ UNCHANGED sem_waiters

\* the exit of `async with semaphore`, Semaphore.release: value + 1, then
\* _wake_up_next; task i ends in `pc`
Release(i, pc) ==
    LET woken == WakeUpNext(sem_value + 1, sem_waiters, [task_pc EXCEPT ![i] = pc])
    IN /\ sem_value' = woken.value
       /\ task_pc' = woken.task_pc
       /\ UNCHANGED sem_waiters

\* a progress call that reports the counter before its increment
ProgressCallStale(i, n) == [task |-> i, completed |-> n - 1, total |-> Len(file_specs)]

\* line 121: self.progress_callback(completed, len(file_specs)), made by task i
ProgressCall(i, n) == [task |-> i, completed |-> n, total |-> Len(file_specs)]

\* lines 118-121, the finally block, then the exit of the async with: count
\* the task, call the progress callback if there is one, release the slot.
\* The task returns `value`, unless the callback raises: then the exception
\* leaves the task in place of the value
Finally(i, value) ==
    /\ completed' = completed + 1
    /\ \/ /\ progress_callback = "none"
          /\ UNCHANGED progress_calls
          /\ results' = [results EXCEPT ![i] = value]
          /\ Release(i, "returned")
       \/ /\ progress_callback # "none"
          /\ progress_calls' = Append(progress_calls,
                 ProgressCall(i, completed + 1))
          /\ \/ /\ results' = [results EXCEPT ![i] = value]
                /\ Release(i, "returned")
             \/ /\ progress_callback = "raises"
                /\ UNCHANGED results
                /\ Release(i, "raised")

\* lines 111-112 and 114-115: the generator method returns, the task returns
\* (True, spec.path, None). A method that runs in the executor cannot return
\* once the executor is shut down
RenderReturns(i) ==
    /\ task_pc[i] = "rendering"
    /\ ~(UsesExecutor(render_method[i]) /\ executor_shutdown)
    /\ render_outcome' = [render_outcome EXCEPT ![i] = "returned"]
    /\ Finally(i, <<TRUE, file_specs[i].path, "None">>)
    /\ UNCHANGED <<render_calls, render_method>>
    /\ UNCHANGED <<run_pc, orchVars, executor_shutdown, fs_dirs, file_specs, directories,
                   dirs_todo, result, callVars, vocab>>

\* a task that calls its generator method again after the method raised
RenderRaisesRetries(i) ==
    /\ task_pc[i] = "rendering"
    /\ render_calls[i] < 2
    /\ render_calls' = [render_calls EXCEPT ![i] = @ + 1]
    /\ UNCHANGED <<sem_value, sem_waiters, task_pc, render_method, render_outcome,
                   results, completed, progress_calls>>
    /\ UNCHANGED <<run_pc, orchVars, executor_shutdown, fs_dirs, file_specs, directories,
                   dirs_todo, result, callVars, vocab>>

\* lines 116-117: the generator method raises, the task returns
\* (False, spec.path, str(e)). With the executor shut down, run_in_executor
\* raises the RuntimeError of ThreadPoolExecutor.submit before anything else
RenderRaises(i) ==
    /\ task_pc[i] = "rendering"
    /\ render_outcome' = [render_outcome EXCEPT ![i] = "raised"]
    /\ \E reason \in IF UsesExecutor(render_method[i]) /\ executor_shutdown
                      THEN {SHUTDOWN_REASON}
                      ELSE FailureReasons :
          Finally(i, <<FALSE, file_specs[i].path, reason>>)
    /\ UNCHANGED <<render_calls, render_method>>
    /\ UNCHANGED <<run_pc, orchVars, executor_shutdown, fs_dirs, file_specs, directories,
                   dirs_todo, result, callVars, vocab>>

\* a count that ignores the success flag
CountAll(res, success) == Len(res)

\* lines 126-130: how many of the tuples have the given success flag
Count(res, success) == Cardinality({i \in DOMAIN res : res[i][1] = success})

\* an error list cut to its first entry
RECURSIVE ErrorsTruncated(_)
ErrorsTruncated(res) ==
    IF res = <<>> THEN <<>>
    ELSE IF res[1][1] = FALSE
         THEN <<<<res[1][2], IF res[1][3] = "" THEN "Unknown error" ELSE res[1][3]>>>>
         ELSE ErrorsTruncated(Tail(res))

\* lines 129-131: errors.append((path, error or "Unknown error")) for each
\* failed tuple, in the order of the tasks
RECURSIVE Errors(_)
Errors(res) ==
    IF res = <<>> THEN <<>>
    ELSE IF res[1][1] = FALSE
         THEN <<<<res[1][2], IF res[1][3] = "" THEN "Unknown error" ELSE res[1][3]>>>>
              \o Errors(Tail(res))
         ELSE Errors(Tail(res))

\* lines 124-141: gather returns the tuples of all tasks; count them, shut
\* the executor down, return the GenerationResult
Aggregate ==
    /\ run_pc = "gather"
    /\ \A i \in Tasks : task_pc[i] = "returned"
    /\ result' = [total_files |-> Len(file_specs),
                  successful |-> Count(results, TRUE),
                  failed |-> Count(results, FALSE),
                  errors |-> Errors(results),
                  directories_created |-> Cardinality(directories)]
    /\ executor_shutdown' = TRUE
    /\ run_pc' = "returned"
    /\ UNCHANGED <<orchVars, fs_dirs, file_specs, directories, dirs_todo, taskVars,
                   callVars, vocab>>

\* line 124: gather passes on the exception of a task whose progress
\* callback raised; generate ends with it. The other tasks are not cancelled
GatherRaises ==
    /\ run_pc = "gather"
    /\ \E i \in Tasks : task_pc[i] = "raised"
    /\ run_pc' = "raised"
    /\ UNCHANGED <<orchVars, executor_shutdown, fs_dirs, file_specs, directories,
                   dirs_todo, taskVars, result, callVars, vocab>>

Next ==
    \/ MkdirBase
    \/ BuildStructure
    \/ MkdirNext
    \/ Dispatch
    \/ \E i \in Tasks : TaskStart(i)
    \/ \E i \in Tasks : TaskResume(i)
    \/ \E i \in Tasks : RenderReturns(i)
    \/ \E i \in Tasks : RenderRaises(i)
    \/ Aggregate
    \/ GatherRaises

Spec == Init /\ [][Next]_vars

\* a further call of generate on the same Orchestrator after a call has
\* returned: the locals of lines 82-102 start afresh, while self.concurrency,
\* self.progress_callback, the executor of self.file_gen and the directories
\* on disk are what the earlier call left
GenerateAgain ==
    /\ run_pc = "returned"
    /\ run_pc' = "start"
    /\ total_files' \in 0..MaxRunTotal
    /\ depth' \in DepthArgs
    /\ vocab = 1 \/ total_files' <= MaxRunNamedTotal
    /\ file_specs' = <<>>
    /\ directories' = {}
    /\ dirs_todo' = <<>>
    /\ sem_value' = 0
    /\ sem_waiters' = <<>>
    /\ task_pc' = <<>>
    /\ render_calls' = <<>>
    /\ render_method' = <<>>
    /\ render_outcome' = <<>>
    /\ results' = <<>>
    /\ completed' = 0
    /\ progress_calls' = <<>>
    /\ result' = NoResult
    /\ UNCHANGED <<concurrency, progress_callback, executor_shutdown, fs_dirs, callVars,
                   vocab>>

NextRepeat == Next \/ GenerateAgain

SpecRepeat == Init /\ [][NextRepeat]_vars

-----------------------------------------------------------------------------
(* Claims about Orchestrator.generate *)

\* the tasks whose generator method raised, and those whose method returned
RaisedTasks == {i \in Tasks : render_outcome[i] = "raised"}

ReturnedTasks == {i \in Tasks : render_outcome[i] = "returned"}

\* the tasks that hold a slot of the semaphore
Holders == {i \in Tasks : task_pc[i] \in {"granted", "rendering"}}

\* C6: every GenerationResult returned by Orchestrator.generate satisfies
\* successful + failed == total_files, for any mix of succeeding and failing
\* generator calls and any completion order.
C6_CountsAddUp ==
    run_pc = "returned" => result.successful + result.failed = result.total_files

\* a returned run of two specs with one failure and one success
C6_Witness ==
    /\ run_pc = "returned"
    /\ result.total_files = 2
    /\ result.failed = 1
    /\ result.successful = 1

\* the paths of the specs whose generator method raised, from task k on
RECURSIVE RaisedPaths(_)
RaisedPaths(k) ==
    IF k > Len(file_specs) THEN <<>>
    ELSE (IF render_outcome[k] = "raised" THEN <<file_specs[k].path>> ELSE <<>>)
         \o RaisedPaths(k + 1)

\* C7: in a returned GenerationResult, failed is the number of specs whose
\* generator call raised, successful the number whose call returned, and
\* errors holds exactly one (path, reason) entry for each failing spec, none
\* left out; if every call fails then failed == total_files and successful == 0.
C7_FailuresReported ==
    run_pc = "returned" =>
        /\ result.failed = Cardinality(RaisedTasks)
        /\ result.successful = Cardinality(ReturnedTasks)
        /\ Len(result.errors) = Cardinality(RaisedTasks)
        /\ [k \in 1..Len(result.errors) |-> result.errors[k][1]] = RaisedPaths(1)
        /\ \A k \in 1..Len(result.errors) : result.errors[k][2] \in {"OSError", "Unknown error"}
        /\ (RaisedTasks = Tasks => result.failed = result.total_files /\ result.successful = 0)

\* a returned run of two specs in which every generator call raised, one of
\* them without a message
C7_Witness ==
    /\ run_pc = "returned"
    /\ result.total_files = 2
    /\ RaisedTasks = Tasks
    /\ Len(result.errors) = 2
    /\ result.errors[1][2] = "Unknown error"
    /\ result.errors[2][2] = "OSError"

\* C8: at every moment of a run the number of tasks that hold a slot of the
\* semaphore (between acquire and release) is at most the configured
\* concurrency; the tasks beyond it wait and have not called a generator.
C8_HoldersBounded ==
    Tasks # {} =>
        /\ Cardinality(Holders) <= concurrency
        /\ \A i \in Tasks : task_pc[i] = "waiting" => render_calls[i] = 0

\* every slot is taken by a rendering task while another task waits for one
C8_Witness ==
    /\ concurrency = 1
    /\ Cardinality({i \in Tasks : task_pc[i] = "rendering"}) = concurrency
    /\ \E i \in Tasks : task_pc[i] = "waiting"

\* C9: with a progress callback supplied, the callback is called once per
\* spec, after that spec's generator call returned or raised; the successive
\* `completed` arguments are 1, 2, ... in that order, the second argument is
\* always the number of specs, and a returned run has made the call for every
\* spec, so that its last call has completed == total.
C9_ProgressInOrder ==
    /\ progress_callback = "none" => progress_calls = <<>>
    /\ \A k \in 1..Len(progress_calls) :
           /\ progress_calls[k].completed = k
           /\ progress_calls[k].total = Len(file_specs)
           /\ render_outcome[progress_calls[k].task] # "none"
    /\ \A j, k \in 1..Len(progress_calls) :
           j # k => progress_calls[j].task # progress_calls[k].task
    /\ (run_pc = "returned" /\ progress_callback # "none") =>
           Len(progress_calls) = Len(file_specs)

\* a returned run whose two tasks completed in the other order than they
\* were created, one after its generator call raised
C9_Witness ==
    /\ run_pc = "returned"
    /\ Len(progress_calls) = 2
    /\ progress_calls[1].task = 2
    /\ progress_calls[2].task = 1
    /\ progress_calls[2].completed = 2
    /\ render_outcome[1] = "raised"

\* C13: within one run the generator method is called exactly once for every
\* FileSpec, whether or not the calls for other specs raise: a task whose call
\* raised is final (never called again), it gives its slot back so that it
\* blocks no other task, and a returned run has made the call for every spec.
C13_RenderedOnce ==
    /\ \A i \in Tasks :
           /\ render_calls[i] <= 1
           /\ render_outcome[i] # "none" => render_calls[i] = 1
           /\ render_outcome[i] = "raised" => task_pc[i] \in {"returned", "raised"}
           /\ run_pc = "returned" => render_calls[i] = 1
    /\ Tasks # {} => Cardinality(Holders) + sem_value = concurrency

\* a returned run with one slot: the first task's call raised, the second
\* task got the slot after it and its call returned
C13_Witness ==
    /\ run_pc = "returned"
    /\ concurrency = 1
    /\ render_outcome = <<"raised", "returned">>
    /\ render_calls = <<1, 1>>

\* the directory of every FileSpec exists
DirectoriesExist == \A k \in 1..Len(file_specs) : Parent(file_specs[k].path) \in fs_dirs

\* C14: in every run, every distinct target directory of every FileSpec has
\* been created before the first task calls its generator method: no
\* generator call happens before the mkdir loop has finished.
C14_DirectoriesFirst ==
    (Tasks # {} \/ \E i \in DOMAIN render_calls : render_calls[i] > 0) =>
        /\ dirs_todo = <<>>
        /\ <<>> \in fs_dirs
        /\ directories \subseteq fs_dirs
        /\ DirectoriesExist

\* a task calls its generator method for a file in a sub-directory, with the
\* two sub-directories of the run in existence
C14_Witness ==
    /\ \E i \in Tasks : task_pc[i] = "rendering" /\ Len(file_specs[i].path) = 3
    /\ Cardinality(directories) = 2
    /\ directories \subseteq fs_dirs

\* generate has raised out of a mkdir: the one of base_path (lines 82-83) or
\* one of the loop (lines 95-96)
MkdirFailed == run_pc = "raised" /\ (<<>> \notin fs_dirs \/ dirs_todo # <<>>)

\* C15: if base_path or a target directory cannot be created, generate ends
\* with the error: while a directory is missing no task is dispatched, no
\* generator method and no progress callback is called and no
\* GenerationResult is returned, and after the failed mkdir nothing happens.
C15_MkdirFailureAborts ==
    /\ (<<>> \notin fs_dirs \/ ~DirectoriesExist) =>
           /\ task_pc = <<>>
           /\ render_calls = <<>>
           /\ progress_calls = <<>>
           /\ result = NoResult
           /\ run_pc \notin {"gather", "returned"}
    /\ MkdirFailed => (~DirectoriesExist \/ <<>> \notin fs_dirs) /\ ~ENABLED Next

\* generate has raised out of the mkdir of the second of two target
\* directories, with the first one created
C15_Witness ==
    /\ MkdirFailed
    /\ Len(dirs_todo) = 1
    /\ Cardinality(directories) = 2
    /\ Cardinality(directories \cap fs_dirs) = 1

-----------------------------------------------------------------------------
(* Orchestrator.generate under the scheduling of the event loop *)

\* the event loop runs every step that is ready: the synchronous steps of
\* generate, each task's start and its resumption once it was given a slot,
\* and the join; every generator call ends, by returning or by raising
Fairness ==
    /\ WF_vars(MkdirBase)
    /\ WF_vars(BuildStructure)
    /\ WF_vars(MkdirNext)
    /\ WF_vars(Dispatch)
    /\ WF_vars(Aggregate)
    /\ WF_vars(GatherRaises)
    /\ \A i \in 1..MaxRunTotal :
           /\ WF_vars(i \in Tasks /\ TaskStart(i))
           /\ WF_vars(i \in Tasks /\ TaskResume(i))
           /\ WF_vars(i \in Tasks /\ (RenderReturns(i) \/ RenderRaises(i)))

SpecFair == Init /\ [][Next]_vars /\ Fairness

\* C18: with a positive concurrency and every generator call ending, under
\* fair scheduling every dispatched task gets a slot and completes, and
\* generate returns a GenerationResult: no task waits for a slot forever.
C18_RunCompletes ==
    /\ (run_pc = "gather" /\ concurrency >= 1) ~> (run_pc = "returned")
    /\ \A i \in 1..MaxRunTotal :
           (run_pc = "gather" /\ concurrency >= 1 /\ i \in Tasks)
               ~> (i \in Tasks /\ render_calls[i] = 1 /\ task_pc[i] = "returned")

\* C19: the concurrency that reaches the semaphore is a positive integer: a
\* value <= 0 is rejected before the run starts, so the semaphore is never
\* created with zero or negative capacity.
C19_ConcurrencyPositive ==
    (run_pc = "mkdirs" /\ dirs_todo = <<>>) => concurrency >= 1

\* C29: an exception raised by the progress callback is isolated like the
\* failure of a generator call: generate does not end with an exception once
\* a progress callback has been called, it goes on to return a
\* GenerationResult.
C29_CallbackIsolated ==
    run_pc = "raised" => progress_calls = <<>>

\* the tasks that have not got a slot yet, and those that have left the
\* async with
WaitingTasks == {i \in Tasks : task_pc[i] \in {"new", "waiting"}}

FinishedTasks == {i \in Tasks : task_pc[i] \in {"returned", "raised"}}

\* C30: between the dispatch and the join every task is waiting for a slot,
\* holding one or finished, the three counts add up to the number of specs,
\* the slots taken are those of the holders, and `completed` is the number
\* of tasks that went through their finally block, whether the generator
\* call returned or raised; when generate returns every slot is free.
C30_TaskStatesAndSlots ==
    /\ run_pc \in {"gather", "returned"} =>
          /\ Len(task_pc) = Len(file_specs)
          /\ \A i \in Tasks :
                task_pc[i] \in {"new", "waiting", "granted", "rendering", "returned", "raised"}
          /\ Cardinality(WaitingTasks) + Cardinality(Holders) + Cardinality(FinishedTasks)
                = Len(file_specs)
          /\ Cardinality(Holders) = concurrency - sem_value
          /\ completed = Cardinality(FinishedTasks)
          /\ FinishedTasks = RaisedTasks \cup ReturnedTasks
          /\ \A i \in Tasks : task_pc[i] = "waiting" => \E k \in 1..Len(sem_waiters) : sem_waiters[k] = i
    /\ run_pc = "returned" =>
          /\ FinishedTasks = Tasks
          /\ sem_value = concurrency
          /\ completed = Len(file_specs)

\* a run with one slot in which the first task has finished after its
\* generator call raised and the second task holds the slot it gave back
C30_Witness ==
    /\ run_pc = "gather"
    /\ concurrency = 1
    /\ Len(file_specs) = 2
    /\ render_outcome[1] = "raised"
    /\ task_pc = <<"returned", "rendering">>
    /\ completed = 1
    /\ sem_value = 0

\* an Orchestrator and a call of generate with every vocabulary of the
\* FilenameGenerator for every total
InitNamed ==
    /\ IdleCall
    /\ run_pc = "start"
    /\ total_files \in 0..MaxRunTotal
    /\ depth \in DepthArgs
    /\ vocab \in 1..MaxNames
    /\ concurrency \in -1..MaxConcurrency
    /\ progress_callback \in {"none", "returns", "raises"}
    /\ executor_shutdown = FALSE
    /\ fs_dirs = {}
    /\ file_specs = <<>>
    /\ directories = {}
    /\ dirs_todo = <<>>
    /\ sem_value = 0
    /\ sem_waiters = <<>>
    /\ task_pc = <<>>
    /\ render_calls = <<>>
    /\ render_method = <<>>
    /\ render_outcome = <<>>
    /\ results = <<>>
    /\ completed = 0
    /\ progress_calls = <<>>
    /\ result = NoResult

SpecNamed == InitNamed /\ [][Next]_vars

\* C27: no two tasks that hold a slot of the semaphore at the same time
\* have the same target path, whatever file names the FilenameGenerator
\* returns: concurrent generator calls never write the same file.
C27_HoldersWriteDistinctFiles ==
    vocab >= 2 =>
        \A i, j \in Holders : i # j => file_specs[i].path # file_specs[j].path

-----------------------------------------------------------------------------
(* The tasks of generate for FileSpecs given directly *)

\* FileSpecs of base_path/Finance: two of registered extensions, one of an
\* extension EXTENSION_GENERATORS lacks, one without a suffix.
\* generate_structure only draws extensions that are registered, so a spec
\* of the last two kinds reaches the tasks only from another producer
GIVEN_SPECS ==
    {[path |-> <<"Finance", "Invoice.pdf">>, extension |-> ".pdf", department |-> "Finance"],
     [path |-> <<"Finance", "Budget.csv">>, extension |-> ".csv", department |-> "Finance"],
     [path |-> <<"Finance", "Ledger.dat">>, extension |-> ".dat", department |-> "Finance"],
     [path |-> <<"Finance", "README">>, extension |-> "", department |-> "Finance"]}

GivenSpecLists == UNION {[1..n -> GIVEN_SPECS] : n \in 1..MaxGiven}

\* generate at line 98, with the directories made, for a given list of specs
InitTasks ==
    /\ IdleCall
    /\ vocab = 1
    /\ run_pc = "mkdirs"
    /\ file_specs \in GivenSpecLists
    /\ total_files = Len(file_specs)
    /\ depth = 1
    /\ concurrency \in 1..MaxConcurrency
    /\ progress_callback \in {"none", "returns", "raises"}
    /\ executor_shutdown = FALSE
    /\ directories = {Parent(file_specs[k].path) : k \in 1..Len(file_specs)}
    /\ fs_dirs = UNION {WithParents(d) : d \in directories}
    /\ dirs_todo = <<>>
    /\ sem_value = 0
    /\ sem_waiters = <<>>
    /\ task_pc = <<>>
    /\ render_calls = <<>>
    /\ render_method = <<>>
    /\ render_outcome = <<>>
    /\ results = <<>>
    /\ completed = 0
    /\ progress_calls = <<>>
    /\ result = NoResult

NextTasks ==
    \/ Dispatch
    \/ \E i \in Tasks : TaskStart(i)
    \/ \E i \in Tasks : TaskResume(i)
    \/ \E i \in Tasks : RenderReturns(i)
    \/ \E i \in Tasks : RenderRaises(i)
    \/ Aggregate
    \/ GatherRaises

SpecTasks == InitTasks /\ [][NextTasks]_vars

\* C25: a task whose spec has an extension without an entry in
\* EXTENSION_GENERATORS calls generate_txt, the plain-text generator; when
\* that call returns the task returns success, and generate counts it as
\* successful and lists no error for it.
C25_FallbackToText ==
    \A i \in Tasks :
        EXTENSION_GENERATORS(file_specs[i].extension) = "None" =>
            /\ render_calls[i] >= 1 => render_method[i] = "generate_txt"
            /\ (render_outcome[i] = "returned" /\ results[i] # <<>>) =>
                   results[i] = <<TRUE, file_specs[i].path, "None">>
            /\ (render_outcome[i] = "returned" /\ run_pc = "returned") =>
                   /\ result.successful >= 1
                   /\ \A k \in 1..Len(result.errors) :
                         result.errors[k][1] # file_specs[i].path
                            \/ \E j \in RaisedTasks : file_specs[j].path = file_specs[i].path

\* a run of two tasks that returned with both successful, one of a spec with
\* the unregistered extension .dat and one of a spec without a suffix
C25_Witness ==
    /\ run_pc = "returned"
    /\ Len(file_specs) = 2
    /\ file_specs[1].extension = ".dat"
    /\ file_specs[2].extension = ""
    /\ render_method = <<"generate_txt", "generate_txt">>
    /\ result.successful = 2

\* C28: generate can be called again on the same Orchestrator after a call
\* has returned: no task of a later call is recorded as failed because the
\* worker pool was shut down by the earlier call, so a spec of a kind written
\* through the pool (.docx, .xlsx, .pdf, .pptx) whose generator call meets no
\* failure of its own is recorded as successful again.
C28_PoolUsableAgain ==
    \A i \in Tasks : results[i] # <<>> => results[i][3] # SHUTDOWN_REASON

-----------------------------------------------------------------------------
(* cli.main *)

\* choices=[1, 2, 3] of --depth
DEPTH_CHOICES == {1, 2, 3}

\* `if args.count > 10000`
COUNT_CEILING == 10000

\* the parameters of Orchestrator.__init__
ORCHESTRATOR_PARAMS == {"seed", "concurrency", "progress_callback", "sanitize_for_windows"}

\* the keyword arguments main passes to Orchestrator(...)
MAIN_KWARGS ==
    {"seed", "concurrency", "progress_callback", "sanitize_for_windows",
     "realistic_timestamps"}

\* the command lines tried: count around both limits, every depth argument,
\* a path that is absent, a directory or a file, any --concurrency, with and
\* without --preview and --platform-info
CountArgs == (-1..MaxCliCount) \cup {COUNT_CEILING, COUNT_CEILING + 1}

MainCalls ==
    {[fn |-> "main", count |-> c, depth |-> d, path |-> p, concurrency |-> k,
      preview |-> v, platform_info |-> i]
     : c \in CountArgs, d \in DepthArgs, p \in {"absent", "directory", "file"},
       k \in -1..MaxConcurrency, v \in BOOLEAN, i \in BOOLEAN}

\* a check of the arguments that lets every count through
ArgumentErrorLax(args) ==
    IF args.path = "file" THEN "exists and is not a directory" ELSE "None"

\* lines 130-142: the message of the first check of the arguments that fails
ArgumentError(args) ==
    IF args.count < 1 THEN "count must be at least 1"
    ELSE IF args.count > COUNT_CEILING THEN "count cannot exceed 10000"
    ELSE IF args.path = "file" THEN "exists and is not a directory"
    ELSE "None"

\* Orchestrator(**kwargs): Python raises TypeError for a keyword argument
\* that is no parameter of __init__
Construct(kwargs) ==
    IF kwargs \subseteq ORCHESTRATOR_PARAMS THEN "Orchestrator" ELSE "TypeError"

\* line 242: return 0 if result.failed == 0 else 1
ExitStatus(res) == IF res.failed = 0 THEN 0 ELSE 1

InitCli ==
    /\ call \in MainCalls
    /\ returned = FALSE
    /\ ret = <<>>
    /\ vocab = 1
    /\ IdleRun

\* line 116, parser.parse_args(): a --depth outside the choices ends the
\* process with the usage error, exit status 2
ParseArgsExits ==
    /\ ~returned
    /\ call.fn = "main"
    /\ call.depth \notin DEPTH_CHOICES
    /\ ret' = [outcome |-> "exit", status |-> 2, message |-> "invalid choice"]
    /\ returned' = TRUE
    /\ UNCHANGED <<call, vocab, runVars>>

\* lines 118-128: --platform-info prints and returns 0 before any check of
\* count and path
PlatformInfo ==
    /\ ~returned
    /\ call.fn = "main"
    /\ call.depth \in DEPTH_CHOICES
    /\ call.platform_info
    /\ ret' = [outcome |-> "exit", status |-> 0, message |-> ""]
    /\ returned' = TRUE
    /\ UNCHANGED <<call, vocab, runVars>>

\* lines 130-142: an invalid count or a path that is a file prints the error
\* and returns 1
RejectArguments ==
    /\ ~returned
    /\ call.fn = "main"
    /\ call.depth \in DEPTH_CHOICES
    /\ ~call.platform_info
    /\ ArgumentError(call) # "None"
    /\ ret' = [outcome |-> "exit", status |-> 1, message |-> ArgumentError(call)]
    /\ returned' = TRUE
    /\ UNCHANGED <<call, vocab, runVars>>

\* lines 164-170: with the arguments accepted, main constructs the
\* Orchestrator, --concurrency handed on as it is. The TypeError of the call
\* leaves main, and the process ends with a traceback and exit status 1;
\* otherwise main goes on to the preview or to generate_sync (lines 172-242)
ConstructOrchestrator ==
    /\ ~returned
    /\ call.fn = "main"
    /\ call.depth \in DEPTH_CHOICES
    /\ ~call.platform_info
    /\ ArgumentError(call) = "None"
    /\ ret = <<>>
    /\ IF Construct(MAIN_KWARGS) = "TypeError"
       THEN /\ ret' = [outcome |-> "TypeError", status |-> 1,
                       message |-> "unexpected keyword argument"]
            /\ returned' = TRUE
       ELSE /\ ret' = [outcome |-> "constructed", status |-> 0, message |-> ""]
            /\ UNCHANGED returned
    /\ UNCHANGED <<call, vocab, runVars>>

NextCli ==
    \/ ParseArgsExits
    \/ PlatformInfo
    \/ RejectArguments
    \/ ConstructOrchestrator

SpecCli == InitCli /\ [][NextCli]_vars

-----------------------------------------------------------------------------
(* Claims about the command line *)

C17_ExitStatusReflectsFailures ==
    (/\ returned
     /\ call.fn = "main"
     /\ call.depth \in DEPTH_CHOICES
     /\ ArgumentError(call) = "None"
     /\ ~call.preview
     /\ ~call.platform_info) =>
        /\ ret.outcome = "exit"
        /\ run_pc = "returned"
        /\ ret.status = ExitStatus(result)

====
